---------------------------- MODULE Spec2Model ----------------------------
(***************************************************************************)
(* Model of the chunk/sequence index of the CNTK text reader               *)
(* (Source/Readers/ReaderLib/Indexer.h): struct SequenceDescriptor,        *)
(* struct ChunkDescriptor and struct Index with Reserve, AddSequence and   *)
(* IsEmpty, and class Indexer, whose Build fills the index from a file.    *)
(*                                                                         *)
(* Integer widths are scaled down so that the overflow checks of           *)
(* AddSequence are exercised: uint32_t is Uint32Bits wide, size_t twice    *)
(* that (as 64 is twice 32), ChunkIdType is ChunkIdBits wide.              *)
(***************************************************************************)
EXTENDS Integers, Sequences, FiniteSets, TLC

(***************************************************************************)
(* Bounds of the model.                                                    *)
(***************************************************************************)
\* Scaled width of uint32_t (32 in the program).
Uint32Bits == 2

\* Scaled width of ChunkIdType (declared in DataDeserializer.h).
ChunkIdBits == 2

\* Number of successful AddSequence calls explored with arbitrary arguments.
MaxAdds == 3

\* Length in bytes of the longest input file Build is run on.
MaxFileLen == 5

Uint32Mod == 2 ^ Uint32Bits

\* size_t is twice as wide as uint32_t.
SizeMod == Uint32Mod * Uint32Mod

\* Number of successful AddSequence calls explored when the records are fed
\* in file order.
MaxOrderedAdds == MaxAdds + 2

(***************************************************************************)
(* Fixed-width arithmetic.                                                 *)
(***************************************************************************)
\* static_cast<uint32_t>(x)
ToUint32(x) == x % Uint32Mod

\* size_t subtraction a - b (wraps around)
SizeSub(a, b) == (a - b) % SizeMod

\* size_t addition a + b (wraps around)
SizeAdd(a, b) == (a + b) % SizeMod

\* (ChunkIdType) x
ToChunkId(x) == x % (2 ^ ChunkIdBits)

\* CHUNKID_MAX, the largest value of ChunkIdType.
CHUNKID_MAX == (2 ^ ChunkIdBits) - 1

(***************************************************************************)
(* Inputs.                                                                 *)
(***************************************************************************)
\* KeyType: a sequence component and a sample component.
KeyType(sequence, sample) == [m_sequence |-> sequence, m_sample |-> sample]

\* SequenceDescriptor(key, numberOfSamples): offset and size start at 0.
SequenceDescriptor(key, numberOfSamples) ==
    [m_key |-> key, m_numberOfSamples |-> numberOfSamples,
     m_chunkOffsetBytes |-> 0, m_byteSize |-> 0]

\* The descriptors handed to AddSequence: two keys that share the sequence
\* component, one that does not; one and two samples.
Descriptors ==
    { SequenceDescriptor(KeyType(0, 0), 1),
      SequenceDescriptor(KeyType(0, 1), 2),
      SequenceDescriptor(KeyType(1, 0), 2) }

\* Record sizes in bytes: empty, small, the largest 32-bit value, and one
\* past it.
Sizes == {0, 1, Uint32Mod - 1, Uint32Mod}

\* Values of the chunkSize constructor argument: degenerate, small, and
\* larger than any 32-bit value.
MaxChunkSizes == {0, 2, 2 * Uint32Mod}

\* Arguments of Reserve.
ReserveSizes == {0, 1, 2 * Uint32Mod}

(***************************************************************************)
(* State.                                                                  *)
(***************************************************************************)
VARIABLES
    m_chunks,               \* Index::m_chunks
    m_keyToSequenceInChunk, \* Index::m_keyToSequenceInChunk
    m_maxChunkSize,         \* Index::m_maxChunkSize
    m_primary,              \* Index::m_primary
    m_trackFirstSamples,    \* Index::m_trackFirstSamples
    error,                  \* the RuntimeError that ended the build, or "none"
    added,                  \* history: the AddSequence calls that returned
    lastCall,               \* history: the byte range of the latest call
    indexer                 \* the Indexer that fills the index, if one does

vars == <<m_chunks, m_keyToSequenceInChunk, m_maxChunkSize, m_primary,
          m_trackFirstSamples, error, added, lastCall, indexer>>

\* ChunkDescriptor(): every counter 0, no sequences.
ChunkDescriptor ==
    [m_id |-> 0, m_numberOfSamples |-> 0, m_numberOfSequences |-> 0,
     m_sequences |-> <<>>, m_offset |-> 0, m_byteSize |-> 0,
     m_firstSamples |-> <<>>]

NoCall == [startOffsetInFile |-> -1, endOffsetInFile |-> -1]

NoScan == [from |-> -1, status |-> "none", id |-> 0, m_pos |-> -1]

\* No Indexer: the index is filled by direct calls.
NoIndexer ==
    [file |-> <<>>, skipSequenceIds |-> FALSE, m_pos |-> 0,
     m_hasSequenceIds |-> FALSE, id |-> 0, line |-> 0, scan |-> NoScan,
     pc |-> "none"]

\* Index(chunkSize, primary, trackFirstSamples)
Init ==
    /\ m_chunks = <<>>
    /\ m_keyToSequenceInChunk = [k \in {} |-> <<0, 0>>]
    /\ m_maxChunkSize \in MaxChunkSizes
    /\ m_primary \in BOOLEAN
    /\ m_trackFirstSamples \in BOOLEAN
    /\ error = "none"
    /\ added = <<>>
    /\ lastCall = NoCall
    /\ indexer = NoIndexer

(***************************************************************************)
(* Index::IsEmpty, Index::Reserve                                          *)
(***************************************************************************)
IsEmpty == m_chunks = <<>>

\* The capacity asked of m_chunks.reserve, when it is asked.
ReserveCount(sizeInBytes) ==
    IF m_maxChunkSize > 0
    THEN SizeSub(SizeAdd(sizeInBytes, m_maxChunkSize), 1) \div m_maxChunkSize
    ELSE 0

\* Mutant: the chunks are resized to the capacity, not merely reserved.
ReserveCallResizing(sizeInBytes) ==
    /\ ReserveCount(sizeInBytes) \in Nat
    /\ m_chunks' = [i \in 1 .. ReserveCount(sizeInBytes) + 1 |-> ChunkDescriptor]

\* m_chunks.reserve(...) changes the capacity only; m_chunks.push_back({}).
ReserveCall(sizeInBytes) ==
    /\ ReserveCount(sizeInBytes) \in Nat
    /\ m_chunks' = Append(m_chunks, ChunkDescriptor)

\* Reserve is called once, on the freshly constructed index.
Reserve ==
    \E sizeInBytes \in ReserveSizes :
        /\ error = "none"
        /\ IsEmpty
        /\ ReserveCall(sizeInBytes)
        /\ UNCHANGED <<m_keyToSequenceInChunk, m_maxChunkSize, m_primary,
                       m_trackFirstSamples, error, added, lastCall, indexer>>

(***************************************************************************)
(* Index::AddSequence, statement by statement.                             *)
(***************************************************************************)
\* sd.m_byteSize = static_cast<uint32_t>(endOffsetInFile - startOffsetInFile)
ByteSize(startOffsetInFile, endOffsetInFile) ==
    ToUint32(SizeSub(endOffsetInFile, startOffsetInFile))

\* Mutant: the difference is narrowed to 32 bits on both sides of the
\* comparison.
ByteSizeOverflowsNarrowed(startOffsetInFile, endOffsetInFile) ==
    ByteSize(startOffsetInFile, endOffsetInFile)
        # ToUint32(SizeSub(endOffsetInFile, startOffsetInFile))

\* static_cast<size_t>(sd.m_byteSize) != endOffsetInFile - startOffsetInFile
ByteSizeOverflows(startOffsetInFile, endOffsetInFile) ==
    ByteSize(startOffsetInFile, endOffsetInFile)
        # SizeSub(endOffsetInFile, startOffsetInFile)

\* chunk = &m_chunks.back()
Back(chunks) == Len(chunks)

\* Mutant: a chunk is closed as soon as the record would fill it exactly.
NeedsNewChunkAtLimit(chunk, byteSize) ==
    /\ chunk.m_byteSize > 0
    /\ SizeAdd(chunk.m_byteSize, byteSize) >= m_maxChunkSize

\* Mutant: an empty chunk is closed as well when the record does not fit.
NeedsNewChunkWhenEmpty(chunk, byteSize) ==
    SizeAdd(chunk.m_byteSize, byteSize) > m_maxChunkSize

\* Mutant: the size of the new record is left out of the comparison.
NeedsNewChunkIgnoringRecord(chunk, byteSize) ==
    /\ chunk.m_byteSize > 0
    /\ chunk.m_byteSize > m_maxChunkSize

\* chunk->m_byteSize > 0 && (chunk->m_byteSize + sd.m_byteSize) > m_maxChunkSize
NeedsNewChunk(chunk, byteSize) ==
    /\ chunk.m_byteSize > 0
    /\ SizeAdd(chunk.m_byteSize, byteSize) > m_maxChunkSize

\* Mutant: the id is the size of the chunk list, not the last index.
NewChunkIdOffByOne(chunks) == ToChunkId(Len(chunks))

\* (ChunkIdType)(m_chunks.size() - 1)
NewChunkId(chunks) == ToChunkId(Len(chunks) - 1)

\* const auto& previousChunk = chunk: a reference to the pointer variable
\* chunk itself, so previousChunk-> reads whatever chunk points at when it is
\* used.
PreviousChunk(chunks, chunk) == chunks[chunk]

\* previousChunk->m_offset + previousChunk->m_byteSize, evaluated after
\* chunk = &m_chunks.back() was reassigned to the chunk just pushed.
NewChunkOffset(chunks, chunk) ==
    SizeAdd(PreviousChunk(chunks, chunk).m_offset,
            PreviousChunk(chunks, chunk).m_byteSize)

\* Mutant: chunk is not reassigned after push_back, so the id and the offset
\* are written to the chunk that was last.
OpenChunkStalePointer(chunks) ==
    LET pushed == Append(chunks, ChunkDescriptor)
        chunk == Back(chunks)
        withId == [pushed EXCEPT ![chunk].m_id = NewChunkId(pushed)]
    IN [withId EXCEPT ![chunk].m_offset = NewChunkOffset(withId, chunk)]

\* The body of the if: push_back, chunk = &m_chunks.back(), m_id, m_offset.
OpenChunk(chunks) ==
    LET pushed == Append(chunks, ChunkDescriptor)
        chunk == Back(pushed)
        withId == [pushed EXCEPT ![chunk].m_id = NewChunkId(pushed)]
    IN [withId EXCEPT ![chunk].m_offset = NewChunkOffset(withId, chunk)]

\* Mutant: the limit is compared with the new chunk's id.
ChunkLimitExceededById(chunks) == CHUNKID_MAX < Len(chunks) - 1

\* CHUNKID_MAX < m_chunks.size()
ChunkLimitExceeded(chunks) == CHUNKID_MAX < Len(chunks)

\* Mutant: the table records the sequence count instead of the sample count.
TrackFirstSequence(chunk) ==
    IF m_trackFirstSamples
    THEN [chunk EXCEPT !.m_firstSamples = Append(@, chunk.m_numberOfSequences)]
    ELSE chunk

\* if (m_trackFirstSamples) chunk->m_firstSamples.push_back(chunk->m_numberOfSamples)
TrackFirstSample(chunk) ==
    IF m_trackFirstSamples
    THEN [chunk EXCEPT !.m_firstSamples = Append(@, chunk.m_numberOfSamples)]
    ELSE chunk

\* Mutant: the sample count is incremented instead of advanced by the
\* sequence's samples.
UpdateTotalsCountingSequences(chunk, byteSize, numberOfSamples) ==
    [chunk EXCEPT !.m_byteSize = SizeAdd(@, byteSize),
                  !.m_numberOfSequences = SizeAdd(@, 1),
                  !.m_numberOfSamples = SizeAdd(@, 1)]

\* chunk->m_byteSize += ...; chunk->m_numberOfSequences++;
\* chunk->m_numberOfSamples += sd.m_numberOfSamples
\* (the two counters are inherited from ChunkDescription and taken as size_t)
UpdateTotals(chunk, byteSize, numberOfSamples) ==
    [chunk EXCEPT !.m_byteSize = SizeAdd(@, byteSize),
                  !.m_numberOfSequences = SizeAdd(@, 1),
                  !.m_numberOfSamples = SizeAdd(@, numberOfSamples)]

\* Mutant: the key map is kept for a primary index as well.
KeepsKeyMapAlways == TRUE

\* if (!m_primary): only a non-primary index records sequence locations.
KeepsKeyMap == ~m_primary

\* std::make_pair(chunk->m_id, static_cast<uint32_t>(chunk->m_sequences.size()))
Location(chunk) == <<chunk.m_id, ToUint32(Len(chunk.m_sequences))>>

\* location.second != chunk->m_sequences.size()
PositionOverflows(chunk) == Location(chunk)[2] # Len(chunk.m_sequences)

\* Mutant: the location is assigned, as m_keyToSequenceInChunk[key] = ...
\* would do, and replaces the one recorded before.
InsertKeyOverwriting(map, sequenceId, location) ==
    [k \in DOMAIN map \cup {sequenceId} |->
        IF k = sequenceId THEN location ELSE map[k]]

\* m_keyToSequenceInChunk.insert(...): std::map::insert keeps an existing entry.
InsertKey(map, sequenceId, location) ==
    IF sequenceId \in DOMAIN map
    THEN map
    ELSE [k \in DOMAIN map \cup {sequenceId} |->
            IF k = sequenceId THEN location ELSE map[k]]

\* static_cast<uint32_t>(startOffsetInFile - chunk->m_offset)
ChunkOffsetBytes(startOffsetInFile, chunk) ==
    ToUint32(SizeSub(startOffsetInFile, chunk.m_offset))

\* static_cast<size_t>(sd.m_chunkOffsetBytes) != startOffsetInFile - chunk->m_offset
ChunkOffsetOverflows(startOffsetInFile, chunk) ==
    ChunkOffsetBytes(startOffsetInFile, chunk)
        # SizeSub(startOffsetInFile, chunk.m_offset)

\* Mutant: the descriptor replaces the sequences the chunk already holds.
PushSequenceReplacing(chunk, sd) == [chunk EXCEPT !.m_sequences = <<sd>>]

\* Mutant: the descriptor is inserted at the front of the chunk's sequences.
PushSequenceFront(chunk, sd) == [chunk EXCEPT !.m_sequences = <<sd>> \o @]

\* chunk->m_sequences.push_back(sd)
PushSequence(chunk, sd) == [chunk EXCEPT !.m_sequences = Append(@, sd)]

Outcome(chunks, map, err) == [chunks |-> chunks, map |-> map, error |-> err]

\* The index and the error AddSequence(sd, start, end) ends with. A
\* RuntimeError leaves what was written before it was thrown.
AddSequenceResult(sd, startOffsetInFile, endOffsetInFile) ==
    LET byteSize == ByteSize(startOffsetInFile, endOffsetInFile)
        split == NeedsNewChunk(m_chunks[Back(m_chunks)], byteSize)
        opened == IF split THEN OpenChunk(m_chunks) ELSE m_chunks
        chunk == Back(opened)
        counted == [opened EXCEPT ![chunk] =
                       UpdateTotals(TrackFirstSample(@), byteSize,
                                    sd.m_numberOfSamples)]
        map == IF KeepsKeyMap
               THEN InsertKey(m_keyToSequenceInChunk, sd.m_key.m_sequence,
                              Location(counted[chunk]))
               ELSE m_keyToSequenceInChunk
        stored == [sd EXCEPT
                      !.m_byteSize = byteSize,
                      !.m_chunkOffsetBytes =
                          ChunkOffsetBytes(startOffsetInFile, counted[chunk])]
    IN  IF ByteSizeOverflows(startOffsetInFile, endOffsetInFile)
        THEN Outcome(m_chunks, m_keyToSequenceInChunk, "SizeOverflow")
        ELSE IF split /\ ChunkLimitExceeded(opened)
        THEN Outcome(opened, m_keyToSequenceInChunk, "ChunkLimit")
        ELSE IF KeepsKeyMap /\ PositionOverflows(counted[chunk])
        THEN Outcome(counted, m_keyToSequenceInChunk, "PositionOverflow")
        ELSE IF ChunkOffsetOverflows(startOffsetInFile, counted[chunk])
        THEN Outcome(counted, map, "ChunkOffsetOverflow")
        ELSE Outcome([counted EXCEPT ![chunk] = PushSequence(@, stored)],
                     map, "none")

\* One call of AddSequence. assert(!m_chunks.empty()) is its precondition; a
\* RuntimeError is fatal for the build, so no call follows one.
AddSequenceCall(sd, startOffsetInFile, endOffsetInFile) ==
    /\ error = "none"
    /\ ~IsEmpty
    /\ LET r == AddSequenceResult(sd, startOffsetInFile, endOffsetInFile)
       IN /\ m_chunks' = r.chunks
          /\ m_keyToSequenceInChunk' = r.map
          /\ error' = r.error
          /\ added' = IF r.error = "none"
                      THEN Append(added,
                                  [m_key |-> sd.m_key,
                                   m_numberOfSamples |-> sd.m_numberOfSamples,
                                   startOffsetInFile |-> startOffsetInFile,
                                   endOffsetInFile |-> endOffsetInFile])
                      ELSE added
          /\ lastCall' = [startOffsetInFile |-> startOffsetInFile,
                          endOffsetInFile |-> endOffsetInFile]
    /\ UNCHANGED <<m_maxChunkSize, m_primary, m_trackFirstSamples>>

\* Where the previous record ended in the file (0 before the first).
FileCursor ==
    IF added = <<>> THEN 0 ELSE added[Len(added)].endOffsetInFile

\* The byte ranges tried at a cursor: every size from the cursor on, every
\* size from the start of the file, and an end before the start.
Ranges(cursor) ==
    { <<s, s + d>> : s \in {0, cursor}, d \in Sizes }
        \cup { <<s, s - 1>> : s \in {cursor} \ {0} }

\* AddSequence with arbitrary arguments.
AddSequence ==
    \E sd \in Descriptors, range \in Ranges(FileCursor) :
        /\ Len(added) < MaxAdds
        /\ AddSequenceCall(sd, range[1], range[2])
        /\ UNCHANGED indexer

\* AddSequence for consecutive records of the file: each range starts where
\* the previous one ended, and the keys are keys of whole sequences (sample
\* component 0).
AddSequenceInOrder ==
    \E sd \in Descriptors, d \in Sizes :
        /\ Len(added) < MaxOrderedAdds
        /\ sd.m_key.m_sample = 0
        /\ AddSequenceCall(sd, FileCursor, FileCursor + d)
        /\ UNCHANGED indexer

Next == Reserve \/ AddSequence

Spec == Init /\ [][Next]_vars

NextInOrder == Reserve \/ AddSequenceInOrder

SpecInOrder == Init /\ [][NextInOrder]_vars

(***************************************************************************)
(* class Indexer: Build scans the file record by record and hands each     *)
(* record to Index::AddSequence. Only the declarations of the class are in *)
(* Indexer.h; the steps of Build follow the specification of the scan.     *)
(***************************************************************************)
\* Indexer(..., char streamPrefix = '|', ...)
m_streamPrefix == "|"

Digits == {"1", "2"}

\* The bytes of the input: digits, the delimiter, a letter, a line break.
Chars == Digits \cup {m_streamPrefix, "a", "\n"}

\* The input files.
Files == UNION { [1 .. n -> Chars] : n \in 0 .. MaxFileLen }

\* isdigit(c), c - '0'
IsDigit(c) == c \in Digits

DigitValue(c) == IF c = "1" THEN 1 ELSE 2

\* Mutant: the scan stops at the first character that is not a digit, as if
\* it were the delimiter.
RECURSIVE ScanUpToNonDigit(_, _, _, _)
ScanUpToNonDigit(file, pos, id, found) ==
    IF pos < Len(file) /\ IsDigit(file[pos + 1])
    THEN ScanUpToNonDigit(file, pos + 1, id * 10 + DigitValue(file[pos + 1]),
                          TRUE)
    ELSE [from |-> pos, status |-> IF found THEN "true" ELSE "false",
          id |-> id, m_pos |-> pos]

TryGetNumericSequenceIdLenient(file, pos) ==
    [ScanUpToNonDigit(file, pos, 0, FALSE) EXCEPT !.from = pos]

\* The scan of TryGetNumericSequenceId from offset pos, with the id read so
\* far: digits are accumulated up to the delimiter; another character, or
\* the end of the input, before the delimiter is an error.
RECURSIVE ScanSequenceId(_, _, _, _)
ScanSequenceId(file, pos, id, found) ==
    IF pos >= Len(file)
    THEN [from |-> pos, status |-> "error", id |-> id, m_pos |-> pos]
    ELSE IF file[pos + 1] = m_streamPrefix
    THEN [from |-> pos, status |-> IF found THEN "true" ELSE "false",
          id |-> id, m_pos |-> pos]
    ELSE IF IsDigit(file[pos + 1])
    THEN ScanSequenceId(file, pos + 1, id * 10 + DigitValue(file[pos + 1]),
                        TRUE)
    ELSE [from |-> pos, status |-> "error", id |-> id, m_pos |-> pos]

\* bool TryGetNumericSequenceId(size_t& id), called with m_pos at offset pos.
TryGetNumericSequenceId(file, pos) ==
    [ScanSequenceId(file, pos, 0, FALSE) EXCEPT !.from = pos]

\* SkipLine: the offset of the beginning of the next line, or of the end of
\* the input.
RECURSIVE SkipLine(_, _)
SkipLine(file, pos) ==
    IF pos >= Len(file) THEN Len(file)
    ELSE IF file[pos + 1] = "\n" THEN pos + 1
    ELSE SkipLine(file, pos + 1)

\* m_done: all input was processed.
m_done == indexer.m_pos >= Len(indexer.file)

\* Mutant: the accessor answers as its comment in Indexer.h reads.
HasSequenceIdsAsCommented == ~indexer.m_hasSequenceIds

\* bool HasSequenceIds() const { return m_hasSequenceIds; }
HasSequenceIds == indexer.m_hasSequenceIds

\* Indexer(file, isPrimary, skipSequenceIds, streamPrefix, chunkSize,
\* bufferSize): m_index(chunkSize, isPrimary), nothing read yet.
InitBuild ==
    /\ m_chunks = <<>>
    /\ m_keyToSequenceInChunk = [k \in {} |-> <<0, 0>>]
    /\ m_maxChunkSize \in MaxChunkSizes
    /\ m_primary \in BOOLEAN
    /\ m_trackFirstSamples = FALSE
    /\ error = "none"
    /\ added = <<>>
    /\ lastCall = NoCall
    /\ indexer \in
          { [NoIndexer EXCEPT !.file = file, !.skipSequenceIds = skip,
                              !.m_hasSequenceIds = has,
                              !.pc = "constructed"] :
                file \in Files, skip \in BOOLEAN, has \in BOOLEAN }

\* The start of Build: the index is reserved for the size of the file, and
\* the first bytes decide whether the records carry identifiers.
BuildBegin ==
    /\ indexer.pc = "constructed"
    /\ error = "none"
    /\ IsEmpty
    /\ ReserveCall(Len(indexer.file))
    /\ LET scan == TryGetNumericSequenceId(indexer.file, 0)
       IN  IF indexer.skipSequenceIds
           THEN /\ indexer' = [indexer EXCEPT !.m_hasSequenceIds = FALSE,
                                              !.pc = "lines"]
                /\ error' = error
           ELSE IF scan.status = "error"
           THEN /\ indexer' = [indexer EXCEPT !.scan = scan]
                /\ error' = "MalformedIdentifier"
           ELSE IF scan.status = "false"
           THEN /\ indexer' = [indexer EXCEPT !.m_hasSequenceIds = FALSE,
                                              !.scan = scan, !.pc = "lines"]
                /\ error' = error
           ELSE /\ indexer' = [indexer EXCEPT !.m_hasSequenceIds = TRUE,
                                              !.scan = scan, !.pc = "ids"]
                /\ error' = error
    /\ UNCHANGED <<m_keyToSequenceInChunk, m_maxChunkSize, m_primary,
                   m_trackFirstSamples, added, lastCall>>

\* One record with an identifier column: the identifier is read, the rest
\* of the line skipped and the byte range added with one sample. A line
\* with no digits before the delimiter goes on with the identifier of the
\* line before it.
BuildRecord ==
    /\ indexer.pc = "ids"
    /\ ~m_done
    /\ LET scan == TryGetNumericSequenceId(indexer.file, indexer.m_pos)
           id == IF scan.status = "true" THEN scan.id ELSE indexer.id
           end == SkipLine(indexer.file, scan.m_pos)
       IN  IF scan.status = "error"
           THEN /\ error = "none"
                /\ error' = "MalformedIdentifier"
                /\ indexer' = [indexer EXCEPT !.scan = scan]
                /\ UNCHANGED <<m_chunks, m_keyToSequenceInChunk,
                               m_maxChunkSize, m_primary, m_trackFirstSamples,
                               added, lastCall>>
           ELSE /\ AddSequenceCall(SequenceDescriptor(KeyType(id, 0), 1),
                                   indexer.m_pos, end)
                /\ indexer' = [indexer EXCEPT !.m_pos = end, !.id = id,
                                              !.scan = scan]

\* BuildFromLines, one line: the line is a sequence of one sample whose id
\* is the line number.
BuildFromLines ==
    /\ indexer.pc = "lines"
    /\ ~m_done
    /\ LET end == SkipLine(indexer.file, indexer.m_pos)
       IN  /\ AddSequenceCall(SequenceDescriptor(KeyType(indexer.line, 0), 1),
                              indexer.m_pos, end)
           /\ indexer' = [indexer EXCEPT !.m_pos = end, !.line = @ + 1]

\* Build returns once all input was processed.
BuildEnd ==
    /\ indexer.pc \in {"ids", "lines"}
    /\ error = "none"
    /\ m_done
    /\ indexer' = [indexer EXCEPT !.pc = "done"]
    /\ UNCHANGED <<m_chunks, m_keyToSequenceInChunk, m_maxChunkSize,
                   m_primary, m_trackFirstSamples, error, added, lastCall>>

NextBuild == BuildBegin \/ BuildRecord \/ BuildFromLines \/ BuildEnd

SpecBuild == InitBuild /\ [][NextBuild]_vars

(***************************************************************************)
(* Vocabulary of the properties.                                           *)
(***************************************************************************)
\* x fits the 32-bit size and offset fields.
FitsUint32(x) == x \in 0 .. (Uint32Mod - 1)

\* Every call so far returned.
Succeeded == error = "none" /\ ~IsEmpty

\* The calls that returned took contiguous ranges in file order.
InFileOrder ==
    \A i \in 1 .. Len(added) :
        added[i].startOffsetInFile =
            (IF i = 1 THEN 0 ELSE added[i - 1].endOffsetInFile)

\* So did the call that failed, if one did.
CallsInFileOrder ==
    /\ InFileOrder
    /\ error # "none" =>
          /\ lastCall.startOffsetInFile = FileCursor
          /\ lastCall.endOffsetInFile >= lastCall.startOffsetInFile

\* This step is a call of AddSequence.
AddSequenceStep == added' # added \/ error' # error

RECURSIVE SumSamples(_)
SumSamples(seq) ==
    IF seq = <<>> THEN 0
    ELSE seq[1].m_numberOfSamples + SumSamples(Tail(seq))

RECURSIVE SumBytes(_)
SumBytes(seq) ==
    IF seq = <<>> THEN 0 ELSE seq[1].m_byteSize + SumBytes(Tail(seq))

RECURSIVE SumChunkSamples(_)
SumChunkSamples(chunks) ==
    IF chunks = <<>> THEN 0
    ELSE chunks[1].m_numberOfSamples + SumChunkSamples(Tail(chunks))

(***************************************************************************)
(* C1: after Reserve and successful AddSequence calls the first chunk      *)
(* starts at offset 0 and every later chunk starts where the chunk before  *)
(* it ends.                                                                *)
(***************************************************************************)
C1_ChunkOffsetsChain ==
    Succeeded =>
        /\ m_chunks[1].m_offset = 0
        /\ \A i \in 1 .. (Len(m_chunks) - 1) :
              m_chunks[i].m_offset + m_chunks[i].m_byteSize
                  = m_chunks[i + 1].m_offset

(***************************************************************************)
(* C2: for contiguous ranges in file order, every stored sequence lies     *)
(* inside its chunk: chunkOffsetBytes + byteSize <= the chunk's byteSize.  *)
(***************************************************************************)
C2_SequenceInsideChunk ==
    (Succeeded /\ InFileOrder) =>
        \A c \in 1 .. Len(m_chunks) :
            \A s \in 1 .. Len(m_chunks[c].m_sequences) :
                m_chunks[c].m_sequences[s].m_chunkOffsetBytes
                    + m_chunks[c].m_sequences[s].m_byteSize
                    <= m_chunks[c].m_byteSize

(***************************************************************************)
(* C3 as stated: after successful calls with end >= start (zero-length     *)
(* records included), a chunk is larger than maxChunkSize only if it holds *)
(* exactly one sequence and that sequence is itself larger than            *)
(* maxChunkSize.                                                           *)
(***************************************************************************)
C3_OversizedChunkHasOneSequence ==
    Succeeded =>
        \A c \in 1 .. Len(m_chunks) :
            m_chunks[c].m_byteSize > m_maxChunkSize =>
                /\ Len(m_chunks[c].m_sequences) = 1
                /\ m_chunks[c].m_sequences[1].m_byteSize > m_maxChunkSize

\* The positions of the chunk's sequences that are not zero-length.
NonEmptySequences(chunk) ==
    { s \in 1 .. Len(chunk.m_sequences) : chunk.m_sequences[s].m_byteSize > 0 }

(***************************************************************************)
(* C3 as amended: a chunk is larger than maxChunkSize only if exactly one  *)
(* of its sequences is not zero-length, that sequence is itself larger     *)
(* than maxChunkSize, and it is the chunk's last sequence (the others are  *)
(* zero-length records added before it).                                   *)
(***************************************************************************)
C3_OversizedChunkHasOneNonEmptySequence ==
    Succeeded =>
        \A c \in 1 .. Len(m_chunks) :
            m_chunks[c].m_byteSize > m_maxChunkSize =>
                /\ NonEmptySequences(m_chunks[c])
                       = {Len(m_chunks[c].m_sequences)}
                /\ m_chunks[c].m_sequences[Len(m_chunks[c].m_sequences)]
                       .m_byteSize > m_maxChunkSize

\* A chunk over the cap that holds a zero-length record and an oversized one.
C3_Witness ==
    /\ Succeeded
    /\ \E c \in 1 .. Len(m_chunks) :
          /\ m_chunks[c].m_byteSize > m_maxChunkSize
          /\ Len(m_chunks[c].m_sequences) = 2
          /\ m_maxChunkSize > 0

\* The key of every call that returned.
AddedKeys == { added[i].m_key : i \in 1 .. Len(added) }

\* The key map resolves key to a sequence stored under that key.
Resolves(key) ==
    /\ key.m_sequence \in DOMAIN m_keyToSequenceInChunk
    /\ LET location == m_keyToSequenceInChunk[key.m_sequence]
       IN /\ location[1] + 1 \in 1 .. Len(m_chunks)
          /\ location[2] + 1
                 \in 1 .. Len(m_chunks[location[1] + 1].m_sequences)
          /\ m_chunks[location[1] + 1].m_sequences[location[2] + 1].m_key
                 = key

(***************************************************************************)
(* C4 as stated: in a secondary index, after successful calls with         *)
(* pairwise distinct keys, every added key has a map entry whose chunk id  *)
(* and position are in range and hold a sequence with that key.            *)
(***************************************************************************)
C4_DistinctKeysResolve ==
    (Succeeded /\ ~m_primary /\ Cardinality(AddedKeys) = Len(added)) =>
        \A key \in AddedKeys : Resolves(key)

(***************************************************************************)
(* C4 as amended: the same, for calls whose keys have pairwise distinct    *)
(* sequence components (the map is keyed by that component alone).         *)
(***************************************************************************)
C4_DistinctSequenceIdsResolve ==
    (/\ Succeeded
     /\ ~m_primary
     /\ Cardinality({ k.m_sequence : k \in AddedKeys }) = Len(added)) =>
        \A key \in AddedKeys : Resolves(key)

\* Two keys with distinct sequence components, resolved in the second chunk.
C4_Witness ==
    /\ Succeeded
    /\ ~m_primary
    /\ Len(added) = 2
    /\ Cardinality({ k.m_sequence : k \in AddedKeys }) = 2
    /\ \E k \in DOMAIN m_keyToSequenceInChunk :
          m_keyToSequenceInChunk[k][1] = 1

(***************************************************************************)
(* C5: after successful calls every chunk's totals are the aggregates of   *)
(* its sequences (count, samples, bytes), and the chunks' sample counts    *)
(* add up to the samples of all sequences added.                           *)
(***************************************************************************)
C5_TotalsMatchSequences ==
    Succeeded =>
        /\ \A c \in 1 .. Len(m_chunks) :
              /\ m_chunks[c].m_numberOfSequences = Len(m_chunks[c].m_sequences)
              /\ m_chunks[c].m_numberOfSamples
                     = SumSamples(m_chunks[c].m_sequences)
              /\ m_chunks[c].m_byteSize = SumBytes(m_chunks[c].m_sequences)
        /\ SumChunkSamples(m_chunks) = SumSamples(added)

\* Two chunks, one of them with two sequences and more samples than sequences.
C5_Witness ==
    /\ Succeeded
    /\ Len(m_chunks) = 2
    /\ \E c \in 1 .. Len(m_chunks) :
          /\ Len(m_chunks[c].m_sequences) = 2
          /\ m_chunks[c].m_numberOfSamples > 2
          /\ m_chunks[c].m_byteSize > 1

(***************************************************************************)
(* C6: chunk ids are contiguous and zero-based: the chunk at position i    *)
(* of the chunk list has id i.                                             *)
(***************************************************************************)
C6_ChunkIdIsPosition ==
    \A c \in 1 .. Len(m_chunks) : m_chunks[c].m_id = c - 1

\* Three chunks, the last opened by AddSequence.
C6_Witness == Succeeded /\ Len(m_chunks) = 3

(***************************************************************************)
(* C7 as stated: the number of chunks never exceeds CHUNKID_MAX in any     *)
(* reachable state; the call that would open a chunk beyond the limit      *)
(* fails instead of adding the chunk.                                      *)
(***************************************************************************)
C7_ChunkCountNeverExceedsMax == Len(m_chunks) <= CHUNKID_MAX

(***************************************************************************)
(* C7 as amended: the number of chunks never exceeds CHUNKID_MAX while     *)
(* every call has returned; the call that opens a chunk beyond the limit   *)
(* fails with 'maximum number of chunks exceeded' after it has appended    *)
(* the new, empty chunk, so the failed index holds CHUNKID_MAX + 1 chunks, *)
(* the last with the untruncated id CHUNKID_MAX.                           *)
(***************************************************************************)
C7_ChunkLimitCheckedAfterPush ==
    /\ error = "none" => Len(m_chunks) <= CHUNKID_MAX
    /\ (error = "ChunkLimit" \/ Len(m_chunks) > CHUNKID_MAX) =>
          /\ error = "ChunkLimit"
          /\ Len(m_chunks) = CHUNKID_MAX + 1
          /\ m_chunks[Len(m_chunks)].m_id = CHUNKID_MAX
          /\ m_chunks[Len(m_chunks)].m_sequences = <<>>
          /\ m_chunks[Len(m_chunks)].m_byteSize = 0
    /\ \A c \in 1 .. Len(m_chunks) : m_chunks[c].m_id = c - 1

\* The call that met the chunk limit.
C7_Witness == error = "ChunkLimit" /\ Len(added) = CHUNKID_MAX

(***************************************************************************)
(* C8: AddSequence fails with the size-overflow error exactly when         *)
(* endOffsetInFile - startOffsetInFile does not fit the 32-bit size field, *)
(* and the failed call leaves the chunks and the key map as they were.     *)
(***************************************************************************)
C8_SizeOverflowBeforeMutation ==
    [][AddSequenceStep =>
          /\ (error' = "SizeOverflow") <=>
                 ~FitsUint32(lastCall'.endOffsetInFile
                                 - lastCall'.startOffsetInFile)
          /\ error' = "SizeOverflow" =>
                 /\ m_chunks' = m_chunks
                 /\ m_keyToSequenceInChunk' = m_keyToSequenceInChunk]_vars

\* A size overflow met by an index that already holds sequences and keys.
C8_Witness ==
    /\ error = "SizeOverflow"
    /\ Len(m_chunks) = 2
    /\ DOMAIN m_keyToSequenceInChunk # {}

(***************************************************************************)
(* C9: the chunk-offset overflow error is raised only when                 *)
(* startOffsetInFile minus the offset of the sequence's chunk does not fit *)
(* 32 bits; so for contiguous ranges in file order, with every chunk       *)
(* shorter than 2^32 bytes, no call fails with it.                         *)
(***************************************************************************)
C9_NoChunkOffsetOverflowInFileOrder ==
    /\ error = "ChunkOffsetOverflow" =>
          ~FitsUint32(lastCall.startOffsetInFile
                          - m_chunks[Len(m_chunks)].m_offset)
    /\ (/\ CallsInFileOrder
        /\ \A c \in 1 .. Len(m_chunks) : m_chunks[c].m_byteSize < Uint32Mod)
           => error # "ChunkOffsetOverflow"

(***************************************************************************)
(* C10: a successful AddSequence appends one sequence to the last chunk of *)
(* the resulting index (the chunk it just opened, or the chunk that was    *)
(* last) and leaves every other chunk, a chunk it sealed included, as it   *)
(* was.                                                                    *)
(***************************************************************************)
C10_OnlyLastChunkChanges ==
    [][added' # added =>
          LET before == Len(m_chunks)
              after == Len(m_chunks')
              last == m_chunks'[after]
              was == IF after = before THEN m_chunks[before]
                     ELSE [ChunkDescriptor EXCEPT !.m_id = last.m_id,
                                                  !.m_offset = last.m_offset]
          IN /\ after \in {before, before + 1}
             /\ \A c \in 1 .. (after - 1) : m_chunks'[c] = m_chunks[c]
             /\ last.m_id = was.m_id
             /\ last.m_offset = was.m_offset
             /\ Len(last.m_sequences) = Len(was.m_sequences) + 1
             /\ SubSeq(last.m_sequences, 1, Len(was.m_sequences))
                    = was.m_sequences
             /\ last.m_sequences[Len(last.m_sequences)].m_key
                    = added'[Len(added')].m_key]_vars

\* A call sealed a chunk of two sequences and opened the next.
C10_Witness ==
    /\ Succeeded
    /\ Len(m_chunks) = 2
    /\ Len(m_chunks[1].m_sequences) = 2
    /\ Len(m_chunks[2].m_sequences) = 1

\* The sequences of all chunks, concatenated in chunk order.
RECURSIVE AllSequences(_)
AllSequences(chunks) ==
    IF chunks = <<>> THEN <<>>
    ELSE chunks[1].m_sequences \o AllSequences(Tail(chunks))

(***************************************************************************)
(* C11: concatenating the chunks' sequence lists in chunk order yields     *)
(* exactly the sequences of the AddSequence calls that returned, in call   *)
(* order: as many, with the key, the number of samples and the byte size   *)
(* of each call, none lost, duplicated or reordered.                       *)
(***************************************************************************)
C11_SequencesInCallOrder ==
    LET stored == AllSequences(m_chunks)
    IN  /\ Len(stored) = Len(added)
        /\ \A i \in 1 .. Len(added) :
              /\ stored[i].m_key = added[i].m_key
              /\ stored[i].m_numberOfSamples = added[i].m_numberOfSamples
              /\ stored[i].m_byteSize =
                    added[i].endOffsetInFile - added[i].startOffsetInFile

\* Three calls with changing keys and sizes returned, and they span two
\* chunks, one of which holds two of the sequences.
C11_Witness ==
    /\ Succeeded
    /\ Len(added) = 3
    /\ Len(m_chunks) = 2
    /\ added[1].m_key # added[2].m_key
    /\ added[2].m_key # added[3].m_key
    /\ added[1].endOffsetInFile - added[1].startOffsetInFile
          # added[2].endOffsetInFile - added[2].startOffsetInFile

(***************************************************************************)
(* C12: with trackFirstSamples enabled, after Reserve and successful       *)
(* AddSequence calls every chunk's m_firstSamples is parallel to its       *)
(* m_sequences and its i-th entry is the sum of the numbers of samples of  *)
(* the chunk's sequences before the i-th; with it disabled m_firstSamples  *)
(* is empty in every chunk, in every state.                                *)
(***************************************************************************)
C12_FirstSamplesArePrefixSums ==
    \A c \in 1 .. Len(m_chunks) :
        LET chunk == m_chunks[c]
        IN  IF m_trackFirstSamples
            THEN error = "none" =>
                    /\ Len(chunk.m_firstSamples) = Len(chunk.m_sequences)
                    /\ \A i \in 1 .. Len(chunk.m_sequences) :
                          chunk.m_firstSamples[i] =
                              SumSamples(SubSeq(chunk.m_sequences, 1, i - 1))
            ELSE chunk.m_firstSamples = <<>>

\* Tracking is on, two chunks exist and one of them holds two sequences,
\* the first of them with two samples.
C12_Witness ==
    /\ Succeeded
    /\ m_trackFirstSamples
    /\ Len(m_chunks) = 2
    /\ \E c \in 1 .. Len(m_chunks) :
          /\ Len(m_chunks[c].m_sequences) = 2
          /\ m_chunks[c].m_sequences[1].m_numberOfSamples = 2
          /\ m_chunks[c].m_firstSamples = <<0, 2>>

(***************************************************************************)
(* C13: in every reachable state of a primary index the key map is empty,  *)
(* and no AddSequence call on it ends with the position-overflow error.    *)
(***************************************************************************)
C13_PrimaryKeepsNoKeyMap ==
    m_primary =>
        /\ DOMAIN m_keyToSequenceInChunk = {}
        /\ error # "PositionOverflow"

\* A primary index took, without error, one sequence more into a chunk than
\* a 32-bit position can count: the call at which a non-primary index fails.
C13_Witness ==
    /\ m_primary
    /\ Succeeded
    /\ \E c \in 1 .. Len(m_chunks) :
          Len(m_chunks[c].m_sequences) = Uint32Mod + 1

\* A step that gives the index its first chunks gives it one default chunk,
\* and no step takes the last chunk away.
ReserveStepEffect ==
    /\ (IsEmpty /\ m_chunks' # m_chunks) =>
           m_chunks' = << [m_id |-> 0, m_offset |-> 0, m_byteSize |-> 0,
                           m_numberOfSamples |-> 0, m_numberOfSequences |-> 0,
                           m_sequences |-> <<>>, m_firstSamples |-> <<>>] >>
    /\ ~IsEmpty => m_chunks' # <<>>

(***************************************************************************)
(* C14: IsEmpty() holds exactly when the index has no chunk. It holds on   *)
(* the freshly constructed index; Reserve, for every size and every        *)
(* maxChunkSize (0 included), leaves exactly one chunk with id 0, offset   *)
(* 0, byte size 0, zero counts and no sequences; and from then on IsEmpty  *)
(* never holds again.                                                      *)
(***************************************************************************)
C14_ReserveLeavesOneEmptyChunk ==
    /\ IsEmpty
    /\ [](IsEmpty <=> Len(m_chunks) = 0)
    /\ [][ReserveStepEffect]_vars

\* Reserve has run on an index whose maxChunkSize is 0.
C14_Witness ==
    /\ m_maxChunkSize = 0
    /\ ~IsEmpty
    /\ Len(m_chunks) = 1
    /\ added = <<>>
    /\ error = "none"

\* The offsets, from an offset on, at which the file has the delimiter.
DelimitersFrom(file, from) ==
    { p \in from .. Len(file) - 1 : file[p + 1] = m_streamPrefix }

\* The characters from an offset up to the next delimiter, or up to the end
\* of the input if no delimiter follows.
TokenAt(file, from) ==
    LET delimiters == DelimitersFrom(file, from)
        end == IF delimiters = {} THEN Len(file)
               ELSE CHOOSE p \in delimiters : \A q \in delimiters : p <= q
    IN  SubSeq(file, from + 1, end)

\* The token is not an identifier: it is not closed by the delimiter, or a
\* character of it is not a digit.
Malformed(file, from) ==
    \/ DelimitersFrom(file, from) = {}
    \/ \E i \in 1 .. Len(TokenAt(file, from)) :
          TokenAt(file, from)[i] \notin Digits

\* The number a string of digits denotes in base ten.
RECURSIVE Decimal(_)
Decimal(token) ==
    IF token = <<>> THEN 0
    ELSE 10 * Decimal(SubSeq(token, 1, Len(token) - 1))
            + DigitValue(token[Len(token)])

(***************************************************************************)
(* C15: reading a numeric identifier fails exactly when a character that   *)
(* is not a digit comes before the delimiter or the input ends without a   *)
(* delimiter; the failure is the fatal malformed-identifier error and      *)
(* Build then never completes. It returns false exactly when the delimiter *)
(* follows with no digit before it, and otherwise returns true with the    *)
(* decimal value of the digits.                                            *)
(***************************************************************************)
C15_NumericIdScan ==
    LET scan == indexer.scan
        malformed == Malformed(indexer.file, scan.from)
        token == TokenAt(indexer.file, scan.from)
    IN  /\ scan.status # "none" =>
              /\ scan.status = "error" <=> malformed
              /\ scan.status = "false" <=> (~malformed /\ token = <<>>)
              /\ scan.status = "true" => scan.id = Decimal(token)
        /\ scan.status = "error" <=> error = "MalformedIdentifier"
        /\ error = "MalformedIdentifier" => indexer.pc # "done"

\* The second line of the file has a letter before the delimiter; the first
\* line was added under its identifier before Build failed.
C15_Witness ==
    /\ error = "MalformedIdentifier"
    /\ Len(added) = 1
    /\ added[1].m_key.m_sequence = 1
    /\ indexer.scan.from > 0
    /\ DelimitersFrom(indexer.file, indexer.scan.from) # {}

\* The input has no identifier column: its first line has the delimiter
\* with no digit before it.
NoIdColumn(file) == file # <<>> /\ file[1] = m_streamPrefix

SplitsWhenOverfull ==
    added' # added =>
        LET last == m_chunks[Len(m_chunks)]
            call == added'[Len(added')]
            size == call.endOffsetInFile - call.startOffsetInFile
        IN  IF last.m_byteSize > 0 /\ last.m_byteSize + size > m_maxChunkSize
            THEN /\ Len(m_chunks') = Len(m_chunks) + 1
                 /\ Len(m_chunks'[Len(m_chunks')].m_sequences) = 1
                 /\ m_chunks'[Len(m_chunks')].m_byteSize = size
            ELSE /\ Len(m_chunks') = Len(m_chunks)
                 /\ Len(m_chunks'[Len(m_chunks)].m_sequences) =
                       Len(last.m_sequences) + 1
                 /\ m_chunks'[Len(m_chunks)].m_byteSize =
                       last.m_byteSize + size

(***************************************************************************)
(* C18: a successful AddSequence opens a new chunk if and only if the last *)
(* chunk has a nonzero byte size and that size plus the size of the new    *)
(* record exceeds maxChunkSize; otherwise the record joins the last chunk. *)
(* So the first record of a freshly reserved index, however large, leaves  *)
(* exactly one chunk holding exactly that record, and no chunk-limit       *)
(* error.                                                                  *)
(***************************************************************************)
C18_NewChunkIffOverfull ==
    /\ [][SplitsWhenOverfull]_vars
    /\ []((Len(added) = 1 /\ error = "none") =>
             /\ Len(m_chunks) = 1
             /\ Len(m_chunks[1].m_sequences) = 1)
    /\ [](added = <<>> => error # "ChunkLimit")

\* The only record added is larger than maxChunkSize and sits alone in the
\* only chunk.
C18_Witness ==
    /\ Succeeded
    /\ Len(added) = 1
    /\ m_maxChunkSize > 0
    /\ Len(m_chunks) = 1
    /\ m_chunks[1].m_byteSize > m_maxChunkSize
    /\ Len(m_chunks[1].m_sequences) = 1

(***************************************************************************)
(* C19: after Reserve and successful AddSequence calls no empty chunk is   *)
(* left behind: every chunk but the last has a nonzero byte size and at    *)
(* least one sequence, the last chunk has no sequence only if none was     *)
(* ever added, and for adjacent chunks the byte size of the earlier one    *)
(* plus the byte size of the first sequence of the later one exceeds       *)
(* maxChunkSize.                                                           *)
(***************************************************************************)
C19_GreedyPacking ==
    Succeeded =>
        /\ \A i \in 1 .. Len(m_chunks) - 1 :
              /\ m_chunks[i].m_byteSize > 0
              /\ m_chunks[i].m_sequences # <<>>
              /\ m_chunks[i + 1].m_sequences # <<>>
              /\ m_chunks[i].m_byteSize
                    + m_chunks[i + 1].m_sequences[1].m_byteSize
                       > m_maxChunkSize
        /\ m_chunks[Len(m_chunks)].m_sequences = <<>> => added = <<>>

\* Two chunks: the first was filled exactly to maxChunkSize by two records
\* before a third record opened the second.
C19_Witness ==
    /\ Succeeded
    /\ Len(m_chunks) = 2
    /\ Len(m_chunks[1].m_sequences) = 2
    /\ m_chunks[1].m_byteSize = m_maxChunkSize
    /\ Len(m_chunks[2].m_sequences) = 1

\* A step leaves every entry of the key map as it is, and a successful
\* AddSequence step adds at most the entry of the sequence component of
\* its key.
KeyMapOnlyGrows ==
    /\ \A k \in DOMAIN m_keyToSequenceInChunk :
          /\ k \in DOMAIN m_keyToSequenceInChunk'
          /\ m_keyToSequenceInChunk'[k] = m_keyToSequenceInChunk[k]
    /\ added' # added =>
          LET sequenceId == added'[Len(added')].m_key.m_sequence
          IN  /\ DOMAIN m_keyToSequenceInChunk' \subseteq
                    DOMAIN m_keyToSequenceInChunk \cup {sequenceId}
              /\ ~m_primary => sequenceId \in DOMAIN m_keyToSequenceInChunk'
              /\ Len(AllSequences(m_chunks')) =
                    Len(AllSequences(m_chunks)) + 1

\* The place in call order of the sequence at a location of the key map.
CallAt(location) ==
    Len(AllSequences(SubSeq(m_chunks, 1, location[1]))) + location[2] + 1

\* Every sequence id added resolves to the first call that carried it.
KeyMapKeepsFirst ==
    (Succeeded /\ ~m_primary) =>
        /\ DOMAIN m_keyToSequenceInChunk =
              { added[i].m_key.m_sequence : i \in 1 .. Len(added) }
        /\ \A i \in 1 .. Len(added) :
              CallAt(m_keyToSequenceInChunk[added[i].m_key.m_sequence]) =
                  CHOOSE j \in 1 .. i :
                      /\ added[j].m_key.m_sequence = added[i].m_key.m_sequence
                      /\ \A h \in 1 .. j - 1 :
                            added[h].m_key.m_sequence
                                # added[i].m_key.m_sequence

(***************************************************************************)
(* C20: the key map of a non-primary index is keyed by the sequence        *)
(* component of the key alone, and an entry is never overwritten or        *)
(* removed: an AddSequence whose key has a sequence component already in   *)
(* the map still appends its sequence, and the map keeps the chunk and     *)
(* position of the first occurrence, so that the map can have fewer        *)
(* entries than there are sequences.                                       *)
(***************************************************************************)
C20_KeyMapKeepsFirstOccurrence ==
    /\ [][KeyMapOnlyGrows]_vars
    /\ []KeyMapKeepsFirst

\* Three sequences were added to a non-primary index, the first two under
\* different keys with the same sequence component, and the map has fewer
\* than three entries.
C20_Witness ==
    /\ Succeeded
    /\ ~m_primary
    /\ Len(added) = 3
    /\ added[1].m_key # added[2].m_key
    /\ added[1].m_key.m_sequence = added[2].m_key.m_sequence
    /\ Cardinality(DOMAIN m_keyToSequenceInChunk) < 3
    /\ m_keyToSequenceInChunk[added[2].m_key.m_sequence] = <<0, 0>>

=============================================================================
